---- MODULE Spec2Model ----
(***************************************************************************)
(* Model of database_routing: PrimaryReplicaRouter (configuration lookup   *)
(* with a class-level memoization cache, read/write routing, relation and  *)
(* schema checks) and ForcePrimaryRead (the scoped override of the         *)
(* class-level default_read).                                              *)
(***************************************************************************)
EXTENDS Integers, Sequences, FiniteSets, TLC

(***************************************************************************)
(* Bounds of the model.                                                    *)
(***************************************************************************)
NumContexts == 2        \* execution contexts (threads) that use scopes
NumRouters == 2         \* PrimaryReplicaRouter instances
MaxDepth == 2           \* nesting depth of scopes in one context

Contexts == 1..NumContexts
Routers == 1..NumRouters
ScopeIds == 1..MaxDepth

(***************************************************************************)
(* Entity types (model._meta.app_label, model._meta.model_name), the       *)
(* database aliases of the project and the configuration entries that      *)
(* settings.PRIMARY_REPLICA_ROUTING may hold.                              *)
(***************************************************************************)
Models ==
    { [app_label |-> "testapp", model_name |-> "project"],
      [app_label |-> "testapp", model_name |-> "tag"] }

Databases == {"default", "replica", "tag_primary", "tag_replica"}

EmptyConfig == [k \in {} |-> "default"]

RouteConfigs ==
    { [k \in S |-> IF k = "read" THEN "tag_replica" ELSE "tag_primary"] :
        S \in SUBSET {"read", "write"} }

\* model_label = '%s.%s' % (app_label, model_name)
ModelLabel(model) == model.app_label \o "." \o model.model_name

ConfKeys == {ModelLabel(m) : m \in Models} \cup {m.app_label : m \in Models}

AllConfs == UNION { [D -> RouteConfigs] : D \in SUBSET ConfKeys }

\* The E2E configuration: only the tag model is routed explicitly.
TagConf ==
    [k \in {"testapp.tag"} |-> [read |-> "tag_replica", write |-> "tag_primary"]]

NoModel == [app_label |-> "-", model_name |-> "-"]

VARIABLES
    conf,           \* settings.PRIMARY_REPLICA_ROUTING: key -> {read?, write?}
    lookup_cache,   \* PrimaryReplicaRouter._lookup_cache (class attribute)
    default_read,   \* PrimaryReplicaRouter.default_read (class attribute)
    default_write,  \* PrimaryReplicaRouter.default_write (class attribute)
    prev_read,      \* _prev_read of the ForcePrimaryRead objects of a context
    stack,          \* per context: the scopes it is inside, innermost last
    exc,            \* per context: an error is propagating
    last,           \* the step just taken: operation, arguments, result
    methods,        \* the `methods` argument of force_primary_read_method
    calls           \* per context: the invocations of callables in progress

vars == <<conf, lookup_cache, default_read, default_write, prev_read, stack,
          exc, last, methods, calls>>

(***************************************************************************)
(* PrimaryReplicaRouter                                                    *)
(***************************************************************************)

\* dict.get(key, default)
DictGet(d, key, default) == IF key \in DOMAIN d THEN d[key] ELSE default

\* Variant: the namespace entry is tried before the exact key.
LookupConf_appfirst(model) ==
    LET app_label == model.app_label
        model_label == ModelLabel(model)
    IN  IF app_label \in DOMAIN conf THEN conf[app_label]
        ELSE IF model_label \in DOMAIN conf THEN conf[model_label]
        ELSE EmptyConfig

\* Variant: the exact entry is merged field by field over the namespace entry.
LookupConf_fieldmerge(model) ==
    LET app_label == model.app_label
        model_label == ModelLabel(model)
        exact == IF model_label \in DOMAIN conf THEN conf[model_label]
                 ELSE EmptyConfig
        app == IF app_label \in DOMAIN conf THEN conf[app_label]
               ELSE EmptyConfig
    IN  [k \in DOMAIN exact \cup DOMAIN app |->
            IF k \in DOMAIN exact THEN exact[k] ELSE app[k]]

\* Variant: the defaults of the moment are merged into the cached result.
LookupConf_merged(model) ==
    LET app_label == model.app_label
        model_label == ModelLabel(model)
        found == IF model_label \in DOMAIN conf THEN conf[model_label]
                 ELSE IF app_label \in DOMAIN conf THEN conf[app_label]
                 ELSE EmptyConfig
    IN  [k \in {"read", "write"} |->
            IF k \in DOMAIN found THEN found[k]
            ELSE IF k = "read" THEN default_read ELSE default_write]

\* The lookup in the settings done on a cache miss.
LookupConf(model) ==
    LET app_label == model.app_label
        model_label == ModelLabel(model)
    IN  IF model_label \in DOMAIN conf THEN conf[model_label]
        ELSE IF app_label \in DOMAIN conf THEN conf[app_label]
        ELSE EmptyConfig

\* Variant: the settings are looked up on every call, cached or not.
CacheAfter_nomemo(self, model) ==
    LET model_label == ModelLabel(model)
    IN  [k \in DOMAIN lookup_cache \cup {model_label} |->
            IF k = model_label THEN LookupConf(model) ELSE lookup_cache[k]]

\* Variant: a miss replaces the cache by the new entry alone.
CacheAfter_evict(self, model) ==
    LET model_label == ModelLabel(model)
    IN  IF model_label \notin DOMAIN lookup_cache
        THEN [k \in {model_label} |-> LookupConf(model)]
        ELSE lookup_cache

\* The class-level cache after get_db_config(model) ran on any instance.
CacheAfter(self, model) ==
    LET model_label == ModelLabel(model)
    IN  IF model_label \notin DOMAIN lookup_cache
        THEN [k \in DOMAIN lookup_cache \cup {model_label} |->
                 IF k = model_label THEN LookupConf(model) ELSE lookup_cache[k]]
        ELSE lookup_cache

get_db_config(self, model) == CacheAfter(self, model)[ModelLabel(model)]

\* Variant: the fallback is the import-time default, not the class attribute.
db_for_read_static(self, model) ==
    DictGet(get_db_config(self, model), "read", "replica")

db_for_read(self, model) ==
    DictGet(get_db_config(self, model), "read", default_read)

\* Variant: the write fallback is taken from default_read.
db_for_write_readdefault(self, model) ==
    DictGet(get_db_config(self, model), "write", default_read)

db_for_write(self, model) ==
    DictGet(get_db_config(self, model), "write", default_write)

\* Variant: the read endpoint decides.
allow_syncdb_read(self, db, model) == db = db_for_read(self, model)

\* Variant: the write endpoint is refused when it is also the read endpoint.
allow_syncdb_strict(self, db, model) ==
    db = db_for_write(self, model) /\ db # db_for_read(self, model)

allow_syncdb(self, db, model) == db = db_for_write(self, model)

\* Variant: the read endpoints are compared.
allow_relation_read(self, obj1, obj2) ==
    db_for_read(self, obj1) = db_for_read(self, obj2)

allow_relation(self, obj1, obj2) ==
    db_for_write(self, obj1) = db_for_write(self, obj2)

(***************************************************************************)
(* Steps.  `last` records the step just taken.                             *)
(***************************************************************************)
Event(op, t, self, model, arg, err, val) ==
    [op |-> op, ctx |-> t, self |-> self, model |-> model, arg |-> arg,
     err |-> err, val |-> val]

NoEvent == Event("-", 0, 0, NoModel, "-", FALSE, "-")

Depth(t) == Len(stack[t])
InScope(t) == Depth(t) > 0

\* A routing call of context t on router instance self; it touches the cache.
RouterCall(t, self, model, op, arg, val) ==
    /\ ~exc[t]
    /\ lookup_cache' = CacheAfter(self, model)
    /\ last' = Event(op, t, self, model, arg, FALSE, val)
    /\ UNCHANGED <<conf, default_read, default_write, prev_read, stack, exc>>
    /\ UNCHANGED <<methods, calls>>

\* Whether get_db_config(model) finds the key in the cache.
CacheState(model) ==
    IF ModelLabel(model) \in DOMAIN lookup_cache THEN "hit" ELSE "miss"

CallGetDbConfig(t, self, model) ==
    RouterCall(t, self, model, "get_db_config", CacheState(model),
               get_db_config(self, model))

CallDbForRead(t, self, model) ==
    RouterCall(t, self, model, "db_for_read", CacheState(model),
               db_for_read(self, model))

CallDbForWrite(t, self, model) ==
    RouterCall(t, self, model, "db_for_write", CacheState(model),
               db_for_write(self, model))

CallAllowSyncdb(t, self, db, model) ==
    RouterCall(t, self, model, "allow_syncdb", db, allow_syncdb(self, db, model))

\* allow_relation resolves obj1 and then obj2; both end up in the cache.
CallAllowRelation(t, self, obj1, obj2) ==
    /\ ~exc[t]
    /\ lookup_cache' =
          LET c1 == CacheAfter(self, obj1)
              l2 == ModelLabel(obj2)
          IN  IF l2 \notin DOMAIN c1
              THEN [k \in DOMAIN c1 \cup {l2} |->
                       IF k = l2 THEN LookupConf(obj2) ELSE c1[k]]
              ELSE c1
    /\ last' = Event("allow_relation", t, self, obj1, ModelLabel(obj2), FALSE,
                     allow_relation(self, obj1, obj2))
    /\ UNCHANGED <<conf, default_read, default_write, prev_read, stack, exc>>
    /\ UNCHANGED <<methods, calls>>

\* The settings are replaced at run time (an entry is set or removed).
SetConf(key, cfg) ==
    /\ conf' = [k \in DOMAIN conf \cup {key} |-> IF k = key THEN cfg ELSE conf[k]]
    /\ conf' # conf
    /\ last' = Event("set_conf", 0, 0, NoModel, "-", FALSE, "-")
    /\ UNCHANGED <<lookup_cache, default_read, default_write, prev_read, stack, exc>>
    /\ UNCHANGED <<methods, calls>>

DelConf(key) ==
    /\ key \in DOMAIN conf
    /\ conf' = [k \in DOMAIN conf \ {key} |-> conf[k]]
    /\ last' = Event("del_conf", 0, 0, NoModel, "-", FALSE, "-")
    /\ UNCHANGED <<lookup_cache, default_read, default_write, prev_read, stack, exc>>
    /\ UNCHANGED <<methods, calls>>

(***************************************************************************)
(* ForcePrimaryRead                                                        *)
(***************************************************************************)
ScopesOf(frames) == {frames[i].scope : i \in 1..Len(frames)}

\* `with ForcePrimaryRead():` constructs a new object for every block.
FreshScope(t) == CHOOSE s \in ScopeIds \ ScopesOf(stack[t]) :
                    \A u \in ScopeIds \ ScopesOf(stack[t]) : s <= u

\* An object no frame refers to is gone; its attribute is forgotten.
Retain(t, frames, pr) ==
    [s \in ScopeIds |-> IF s \in ScopesOf(frames) THEN pr[s] ELSE "unset"]

\* __exit__ returns None: the error, if any, is not suppressed.
exit_suppresses == FALSE

\* The value __enter__ assigns to PrimaryReplicaRouter.default_read.
EnterValue == default_write

\* Variant: __exit__ leaves default_read as it is.
ExitValue_keep(t) == default_read

\* Variant: __exit__ resets to the import-time default, not the captured value.
ExitValue_initial(t) == "replica"

\* Variant: __exit__ restores only when no other context is inside a scope.
ExitValue_guarded(t) ==
    IF \E u \in Contexts \ {t} : Len(stack[u]) > 0
    THEN default_read
    ELSE prev_read[t][stack[t][Len(stack[t])].scope]

\* The value __exit__ of the innermost scope of t assigns to default_read.
ExitValue(t) == prev_read[t][stack[t][Len(stack[t])].scope]

\* ForcePrimaryRead.__enter__ on scope object s of context t.
Enter(t, s) ==
    /\ ~exc[t]
    /\ Depth(t) < MaxDepth
    /\ default_read' = EnterValue
    /\ LET captured == [prev_read[t] EXCEPT ![s] = default_read]
           frame == [scope |-> s, before |-> default_read]
       IN  IF EnterValue \in Databases
           THEN \* connections[default_read] is returned, the body starts
                /\ stack' = [stack EXCEPT ![t] = Append(@, frame)]
                /\ prev_read' = [prev_read EXCEPT ![t] = captured]
                /\ exc' = exc
                /\ last' = Event("enter", t, 0, NoModel, default_read, FALSE,
                                 EnterValue)
           ELSE \* connections[...] raises: no body, no __exit__
                /\ stack' = stack
                /\ prev_read' = [prev_read EXCEPT
                                    ![t] = Retain(t, stack[t], captured)]
                /\ exc' = [exc EXCEPT ![t] = TRUE]
                /\ last' = Event("enter_failed", t, 0, NoModel, default_read,
                                 TRUE, "-")
    /\ UNCHANGED <<conf, lookup_cache, default_write>>
    /\ UNCHANGED <<methods, calls>>

EnterFresh(t) ==
    /\ Depth(t) < MaxDepth
    /\ Enter(t, FreshScope(t))

\* ForcePrimaryRead.__exit__ of the innermost scope of context t.
Exit(t) ==
    /\ InScope(t)
    /\ LET top == stack[t][Depth(t)]
           rest == SubSeq(stack[t], 1, Depth(t) - 1)
           propagates == exc[t] /\ ~exit_suppresses
       IN  /\ default_read' = ExitValue(t)
           /\ stack' = [stack EXCEPT ![t] = rest]
           /\ prev_read' = [prev_read EXCEPT ![t] = Retain(t, rest, @)]
           /\ exc' = [exc EXCEPT ![t] = propagates]
           /\ last' = Event("exit", t, 0, NoModel, top.before, exc[t],
                            propagates)
    /\ UNCHANGED <<conf, lookup_cache, default_write>>
    /\ UNCHANGED <<methods, calls>>

\* The body of the innermost scope raises an error.
Raise(t) ==
    /\ InScope(t)
    /\ ~exc[t]
    /\ exc' = [exc EXCEPT ![t] = TRUE]
    /\ last' = Event("raise", t, 0, NoModel, "-", TRUE, "-")
    /\ UNCHANGED <<conf, lookup_cache, default_read, default_write, prev_read,
                   stack>>
    /\ UNCHANGED <<methods, calls>>

\* The caller of the scope receives the error.
Catch(t) ==
    /\ exc[t]
    /\ ~InScope(t)
    /\ exc' = [exc EXCEPT ![t] = FALSE]
    /\ last' = Event("catch", t, 0, NoModel, "-", TRUE, "-")
    /\ UNCHANGED <<conf, lookup_cache, default_read, default_write, prev_read,
                   stack>>
    /\ UNCHANGED <<methods, calls>>

(***************************************************************************)
(* force_primary_read and force_primary_read_method                        *)
(***************************************************************************)
\* A function decorated with @force_primary_read, and the methods of a class
\* decorated with @force_primary_read_method(methods=...).
Functions == {"read_from_primary"}
ClassMethods == {"do_some_update", "do_other_update"}
MethodNames == ClassMethods \cup {"missing"}
Callables == Functions \cup ClassMethods

\* What the body of a callable may return.
ReturnValues == {"count", "obj"}

\* Variant: every method of the class is wrapped, named or not.
force_primary_read_method_all(ms, cls) == cls

\* The attributes of cls that decorator(cls) replaces by a wrapper.
force_primary_read_method(ms, cls) == {m \in ms : m \in cls}

\* Whether calling f goes through the wrapper of force_primary_read.
IsWrapped(f) ==
    \/ f \in Functions
    \/ f \in force_primary_read_method(methods, ClassMethods)

\* Variant: the wrapper drops the result of func.
WrapperReturn_none(v) == "None"

\* wrapper returns what func returned.
WrapperReturn(v) == v

HasCall(t) == Len(calls[t]) > 0
TopCall(t) == calls[t][Len(calls[t])]

\* The body of the innermost invocation of t is running.
InBody(t) ==
    /\ HasCall(t)
    /\ ~exc[t]
    /\ TopCall(t).val = "-"
    /\ TopCall(t).wrapped => Depth(t) > TopCall(t).base

\* Code outside any callable, or the body of a wrapped callable, calls f.
Invoke(t, f) ==
    /\ ~exc[t]
    /\ Len(calls[t]) < MaxDepth
    /\ HasCall(t) => (InBody(t) /\ TopCall(t).wrapped)
    /\ calls' = [calls EXCEPT ![t] = Append(@,
                    [func |-> f, wrapped |-> IsWrapped(f), base |-> Depth(t),
                     before |-> default_read, val |-> "-"])]
    /\ last' = Event("invoke", t, 0, NoModel, f, FALSE, "-")
    /\ UNCHANGED <<conf, lookup_cache, default_read, default_write, prev_read,
                   stack, exc, methods>>

\* wrapper: `with ForcePrimaryRead():` before func is called.
WrapperEnter(t) ==
    /\ HasCall(t)
    /\ TopCall(t).wrapped
    /\ TopCall(t).val = "-"
    /\ Depth(t) = TopCall(t).base
    /\ EnterFresh(t)

\* The body reads through a router.
BodyRead(t, self, model) ==
    /\ InBody(t)
    /\ CallDbForRead(t, self, model)

\* The body raises an error.
BodyRaise(t) ==
    /\ InBody(t)
    /\ Raise(t)

\* The body returns v.
BodyReturn(t, v) ==
    /\ InBody(t)
    /\ calls' = [calls EXCEPT ![t][Len(calls[t])].val = v]
    /\ last' = Event("body_return", t, 0, NoModel, TopCall(t).func, FALSE, v)
    /\ UNCHANGED <<conf, lookup_cache, default_read, default_write, prev_read,
                   stack, exc, methods>>

\* wrapper: the with block is left, by the return or by an error of func.
WrapperExit(t) ==
    /\ HasCall(t)
    /\ TopCall(t).wrapped
    /\ Depth(t) = TopCall(t).base + 1
    /\ TopCall(t).val # "-" \/ exc[t]
    /\ Exit(t)

\* The invocation returns to its caller.
Finish(t) ==
    /\ HasCall(t)
    /\ ~exc[t]
    /\ TopCall(t).val # "-"
    /\ TopCall(t).wrapped => Depth(t) = TopCall(t).base
    /\ calls' = [calls EXCEPT ![t] = SubSeq(@, 1, Len(@) - 1)]
    /\ last' = Event("return", t, 0, NoModel, TopCall(t).func, FALSE,
                     IF TopCall(t).wrapped THEN WrapperReturn(TopCall(t).val)
                     ELSE TopCall(t).val)
    /\ UNCHANGED <<conf, lookup_cache, default_read, default_write, prev_read,
                   stack, exc, methods>>

\* The error leaves the invocation.
Unwind(t) ==
    /\ HasCall(t)
    /\ exc[t]
    /\ TopCall(t).wrapped => Depth(t) = TopCall(t).base
    /\ calls' = [calls EXCEPT ![t] = SubSeq(@, 1, Len(@) - 1)]
    /\ last' = Event("unwind", t, 0, NoModel, TopCall(t).func, TRUE, "-")
    /\ UNCHANGED <<conf, lookup_cache, default_read, default_write, prev_read,
                   stack, exc, methods>>

(***************************************************************************)
(* Specifications                                                          *)
(***************************************************************************)
InitState ==
    /\ lookup_cache = EmptyConfig
    /\ default_read = "replica"
    /\ default_write = "default"
    /\ prev_read = [t \in Contexts |-> [s \in ScopeIds |-> "unset"]]
    /\ stack = [t \in Contexts |-> <<>>]
    /\ exc = [t \in Contexts |-> FALSE]
    /\ last = NoEvent
    /\ methods = {}
    /\ calls = [t \in Contexts |-> <<>>]

\* One execution context that routes and uses scopes one at a time, any
\* settings, and the settings may change at run time.
Init ==
    /\ conf \in AllConfs
    /\ InitState

Next ==
    \/ \E self \in Routers, model \in Models : CallGetDbConfig(1, self, model)
    \/ \E self \in Routers, model \in Models : CallDbForRead(1, self, model)
    \/ \E self \in Routers, model \in Models : CallDbForWrite(1, self, model)
    \/ \E self \in Routers, db \in Databases, model \in Models :
          CallAllowSyncdb(1, self, db, model)
    \/ \E self \in Routers, obj1 \in Models, obj2 \in Models :
          CallAllowRelation(1, self, obj1, obj2)
    \/ \E key \in ConfKeys, cfg \in RouteConfigs : SetConf(key, cfg)
    \/ \E key \in ConfKeys : DelConf(key)
    \/ (~InScope(1) /\ EnterFresh(1))
    \/ Exit(1)

Spec == Init /\ [][Next]_vars

\* One execution context that nests scopes, whose bodies read and may raise;
\* fixed settings.
InitOne ==
    /\ conf \in {EmptyConfig, TagConf}
    /\ InitState

NextOne ==
    \/ EnterFresh(1)
    \/ Exit(1)
    \/ Raise(1)
    \/ Catch(1)
    \/ \E self \in Routers, model \in Models : CallDbForRead(1, self, model)

SpecOne == InitOne /\ [][NextOne]_vars

\* Several execution contexts with their own scopes, fixed settings.
InitConc ==
    /\ conf \in {EmptyConfig, TagConf}
    /\ InitState

NextConc ==
    \/ \E t \in Contexts : EnterFresh(t)
    \/ \E t \in Contexts : Exit(t)
    \/ \E t \in Contexts : Raise(t)
    \/ \E t \in Contexts : Catch(t)
    \/ \E t \in Contexts, self \in Routers, model \in Models :
          CallDbForRead(t, self, model)

SpecConc == InitConc /\ [][NextConc]_vars

\* One execution context that calls a decorated function and the methods of
\* a decorated class; wrapped callables call callables again.
InitWrap ==
    /\ conf = TagConf
    /\ lookup_cache = EmptyConfig
    /\ default_read = "replica"
    /\ default_write = "default"
    /\ prev_read = [t \in Contexts |-> [s \in ScopeIds |-> "unset"]]
    /\ stack = [t \in Contexts |-> <<>>]
    /\ exc = [t \in Contexts |-> FALSE]
    /\ last = NoEvent
    /\ methods \in SUBSET MethodNames
    /\ calls = [t \in Contexts |-> <<>>]

NextWrap ==
    \/ \E f \in Callables : Invoke(1, f)
    \/ WrapperEnter(1)
    \/ \E model \in Models : BodyRead(1, 1, model)
    \/ BodyRaise(1)
    \/ \E v \in ReturnValues : BodyReturn(1, v)
    \/ WrapperExit(1)
    \/ Finish(1)
    \/ Unwind(1)
    \/ (~HasCall(1) /\ Catch(1))

SpecWrap == InitWrap /\ [][NextWrap]_vars

\* One execution context that may enter a scope object again while it is
\* inside it (cm = ForcePrimaryRead(); with cm: with cm: ...).
NextReenter ==
    \/ \E s \in ScopeIds : Enter(1, s)
    \/ Exit(1)
    \/ Raise(1)
    \/ Catch(1)
    \/ \E self \in Routers, model \in Models : CallDbForRead(1, self, model)

SpecReenter == InitOne /\ [][NextReenter]_vars

\* One execution context in a project whose default_write may name an alias
\* that django.db.connections cannot serve.
WriteAliases == {"default", "primary"}

InitFail ==
    /\ conf \in {EmptyConfig, TagConf}
    /\ lookup_cache = EmptyConfig
    /\ default_read = "replica"
    /\ default_write \in WriteAliases
    /\ prev_read = [t \in Contexts |-> [s \in ScopeIds |-> "unset"]]
    /\ stack = [t \in Contexts |-> <<>>]
    /\ exc = [t \in Contexts |-> FALSE]
    /\ last = NoEvent
    /\ methods = {}
    /\ calls = [t \in Contexts |-> <<>>]

SpecFail == InitFail /\ [][NextOne]_vars

TypeOK ==
    /\ conf \in AllConfs
    /\ default_read \in Databases
    /\ \A t \in Contexts : Depth(t) <= MaxDepth

(***************************************************************************)
(* Properties                                                              *)
(***************************************************************************)
\* The values of the class attributes at import time.
DefaultRead0 == "replica"
DefaultWrite0 == "default"

\* The configuration the cache holds for the model of the last call.
Resolved(model) == lookup_cache[ModelLabel(model)]

\* The write endpoint the cached configuration of a key stands for.
WriteOf(label) ==
    IF "write" \in DOMAIN lookup_cache[label]
    THEN lookup_cache[label].write ELSE default_write

ReadOf(label) ==
    IF "read" \in DOMAIN lookup_cache[label]
    THEN lookup_cache[label].read ELSE default_read

AllIdle == \A t \in Contexts : ~InScope(t)

\* C1: override round trip in one execution context.  Inside a scope a
\* db_for_read of an entity type without a configured 'read' returns
\* default_write; after __exit__ default_read has the value it had before
\* __enter__, also when the body raised, and then the error still propagates.
C1_RoundTrip ==
    /\ (last.op = "db_for_read" /\ InScope(last.ctx)
          /\ "read" \notin DOMAIN Resolved(last.model))
        => last.val = default_write
    /\ last.op = "exit" => default_read = last.arg
    /\ (last.op = "exit" /\ last.err) => exc[last.ctx]

C1_Witness ==
    /\ last.op = "exit"
    /\ last.err
    /\ exc[1]
    /\ ~InScope(1)
    /\ default_read = DefaultRead0

\* C2: inside an override scope db_for_read(E) equals db_for_write(E) for
\* every entity type E, also one with an explicitly configured 'read'.
C2_AllReadsPrimary ==
    (last.op = "db_for_read" /\ InScope(last.ctx))
        => last.val = WriteOf(ModelLabel(last.model))

\* C3: nested scopes of one context restore stack-wise.  After an inner scope
\* exits the enclosing override is still in force (default_read equals
\* default_write); after the outermost exits default_read is the value from
\* before it was entered.
C3_Nesting ==
    /\ InScope(1) => default_read = default_write
    /\ ~InScope(1) => default_read = DefaultRead0
    /\ \A i \in 1..Depth(1) :
          /\ stack[1][i].before = (IF i = 1 THEN DefaultRead0 ELSE default_write)
          /\ prev_read[1][stack[1][i].scope] = stack[1][i].before

C3_Witness ==
    /\ last.op = "exit"
    /\ Depth(1) >= 1
    /\ default_read = default_write
    /\ default_read # stack[1][1].before

\* C4 as stated: in any interleaving of the enter and exit steps of several
\* contexts, once no scope is active default_read has its original value.
C4_ReleasedWhenIdle == AllIdle => default_read = DefaultRead0

\* At most one context is inside a scope.
NoOverlap == \A t \in Contexts, u \in Contexts :
                (InScope(t) /\ InScope(u)) => t = u

\* C4 amended: in every run in which the scopes of different contexts never
\* overlap in time, once no scope is active default_read has its original
\* value.
C4_ReleasedWhenIdleSerial ==
    [](NoOverlap) => [](AllIdle => default_read = DefaultRead0)

C4_Witness ==
    /\ AllIdle
    /\ exc[1]
    /\ last.op = "exit"
    /\ last.ctx = 2
    /\ last.err
    /\ default_read = DefaultRead0

\* C5: the restore of one context takes effect although another context is
\* still inside its scope, and a db_for_read of an entity type without a
\* configured 'read' returns whatever default_read is at the call, so inside
\* a scope it can return the replica default.
C5_Race ==
    /\ (last.op = "exit" /\ \E u \in Contexts \ {last.ctx} : InScope(u))
        => default_read = last.arg
    /\ (last.op = "db_for_read" /\ "read" \notin DOMAIN Resolved(last.model))
        => last.val = default_read

C5_Witness ==
    /\ last.op = "db_for_read"
    /\ last.ctx = 2
    /\ InScope(2)
    /\ ~InScope(1)
    /\ "read" \notin DOMAIN Resolved(last.model)
    /\ last.val = DefaultRead0
    /\ last.val # default_write

\* C6: an entered scope is visible to every router instance and every
\* context.  __enter__ makes default_read equal default_write, only an
\* __exit__ ends that, and meanwhile db_for_read of an entity type without a
\* configured 'read' returns default_write whoever calls it on whichever
\* instance.
C6_GlobalOverride ==
    [][ /\ last'.op = "enter" => default_read' = default_write'
        /\ (default_read = default_write /\ last'.op # "exit")
             => default_read' = default_write'
        /\ (default_read = default_write /\ last'.op = "db_for_read"
               /\ "read" \notin DOMAIN lookup_cache'[ModelLabel(last'.model)])
             => last'.val = default_write ]_vars

C6_Witness ==
    /\ last.op = "db_for_read"
    /\ last.ctx = 2
    /\ last.self = NumRouters
    /\ InScope(1)
    /\ ~InScope(2)
    /\ prev_read[2] = [s \in ScopeIds |-> "unset"]
    /\ "read" \notin DOMAIN Resolved(last.model)
    /\ last.val = default_write
    /\ last.val # DefaultRead0

\* C7: on the first lookup of an entity type get_db_config returns the entry
\* of the exact key if the settings have one, else the entry of the
\* namespace if they have one, else the empty configuration; it never fails.
C7_Precedence ==
    last.op = "get_db_config" =>
        LET label == ModelLabel(last.model)
            app == last.model.app_label
        IN  /\ last.val \in RouteConfigs
            /\ last.arg = "miss" =>
                  /\ label \in DOMAIN conf => last.val = conf[label]
                  /\ (label \notin DOMAIN conf /\ app \in DOMAIN conf)
                       => last.val = conf[app]
                  /\ (label \notin DOMAIN conf /\ app \notin DOMAIN conf)
                       => last.val = EmptyConfig

C7_Witness ==
    /\ last.op = "get_db_config"
    /\ last.arg = "miss"
    /\ ModelLabel(last.model) \in DOMAIN conf
    /\ last.model.app_label \in DOMAIN conf
    /\ conf[ModelLabel(last.model)] # conf[last.model.app_label]
    /\ last.val = conf[ModelLabel(last.model)]

\* C8: db_for_read returns the 'read' of the resolved configuration if it has
\* one, else the current default_read; db_for_write its 'write', else
\* default_write.  Outside a scope an entity type without any entry reads
\* from the replica default and writes to the primary default.
C8_Fallback ==
    /\ last.op = "db_for_read" =>
          /\ "read" \in DOMAIN Resolved(last.model)
                => last.val = Resolved(last.model).read
          /\ "read" \notin DOMAIN Resolved(last.model)
                => last.val = default_read
          /\ (last.arg = "miss" /\ ~InScope(last.ctx)
                /\ ModelLabel(last.model) \notin DOMAIN conf
                /\ last.model.app_label \notin DOMAIN conf)
                => last.val = DefaultRead0
    /\ last.op = "db_for_write" =>
          /\ "write" \in DOMAIN Resolved(last.model)
                => last.val = Resolved(last.model).write
          /\ "write" \notin DOMAIN Resolved(last.model)
                => last.val = default_write
          /\ (last.arg = "miss"
                /\ ModelLabel(last.model) \notin DOMAIN conf
                /\ last.model.app_label \notin DOMAIN conf)
                => last.val = DefaultWrite0

C8_Witness ==
    /\ last.op = "db_for_write"
    /\ DOMAIN Resolved(last.model) = {"read"}
    /\ last.val = DefaultWrite0
    /\ InScope(last.ctx)

\* C9: once a key is resolved, every later get_db_config for it returns the
\* result of the first resolution, whatever happens in between, also when
\* the settings change.
C9_Sticky ==
    [][ \A m \in Models :
          ModelLabel(m) \in DOMAIN lookup_cache =>
            /\ ModelLabel(m) \in DOMAIN lookup_cache'
            /\ lookup_cache'[ModelLabel(m)] = lookup_cache[ModelLabel(m)]
            /\ (last'.op = "get_db_config" /\ last'.model = m)
                 => last'.val = lookup_cache[ModelLabel(m)] ]_vars

C9_Witness ==
    /\ last.op = "get_db_config"
    /\ last.arg = "hit"
    /\ ModelLabel(last.model) \in DOMAIN conf
    /\ last.val # conf[ModelLabel(last.model)]
    /\ last.val # EmptyConfig

\* C10: allow_relation(A, B) is true exactly when the write endpoints of A
\* and B are equal; the read endpoints play no part.
C10_Relation ==
    last.op = "allow_relation" =>
        (last.val <=> WriteOf(ModelLabel(last.model)) = WriteOf(last.arg))

C10_Witness ==
    /\ last.op = "allow_relation"
    /\ last.val = FALSE
    /\ ReadOf(ModelLabel(last.model)) = ReadOf(last.arg)
    /\ WriteOf(ModelLabel(last.model)) # WriteOf(last.arg)

\* C11: allow_syncdb(x, E) is true exactly when x is the write endpoint of E.
C11_Syncdb ==
    last.op = "allow_syncdb" =>
        (last.val <=> last.arg = WriteOf(ModelLabel(last.model)))

C11_Witness ==
    /\ last.op = "allow_syncdb"
    /\ last.val = TRUE
    /\ last.arg = "tag_primary"
    /\ last.arg # default_write

\* C12 as stated: allow_syncdb on the read endpoint of E is false in every
\* reachable state.
C12_NeverOnReadTarget ==
    (last.op = "allow_syncdb" /\ last.arg = ReadOf(ModelLabel(last.model)))
        => last.val = FALSE

\* C12 amended: allow_syncdb on the read endpoint of E is false exactly when
\* the read endpoint of E differs from its write endpoint.
C12_ReadTargetUnlessWrite ==
    (last.op = "allow_syncdb" /\ last.arg = ReadOf(ModelLabel(last.model)))
        => (last.val <=> ReadOf(ModelLabel(last.model))
                           = WriteOf(ModelLabel(last.model)))

C12_Witness ==
    /\ last.op = "allow_syncdb"
    /\ last.arg = ReadOf(ModelLabel(last.model))
    /\ last.val = TRUE
    /\ InScope(last.ctx)
    /\ Resolved(last.model) = EmptyConfig

\* The settings entry that applies to the model names a 'read' endpoint.
SettingsHaveRead(model) ==
    IF ModelLabel(model) \in DOMAIN conf
    THEN "read" \in DOMAIN conf[ModelLabel(model)]
    ELSE /\ model.app_label \in DOMAIN conf
         /\ "read" \in DOMAIN conf[model.app_label]

\* C15: the override acts at call time, not on the memoized configuration.
\* For an entity type whose settings have no 'read' and whose configuration
\* is already cached, db_for_read returns the replica default outside a scope
\* and default_write inside one.
C15_CallTime ==
    (last.op = "db_for_read" /\ last.arg = "hit"
       /\ ~SettingsHaveRead(last.model))
        => last.val = (IF InScope(last.ctx) THEN default_write
                       ELSE DefaultRead0)

C15_Witness ==
    /\ last.op = "db_for_read"
    /\ last.arg = "hit"
    /\ ~SettingsHaveRead(last.model)
    /\ InScope(last.ctx)
    /\ last.val = default_write
    /\ last.val # DefaultRead0

\* C18: an exact entry shadows the namespace entry as a whole.  When the
\* exact entry lacks 'read' (or 'write'), the first db_for_read (db_for_write)
\* returns the class default, whatever the namespace entry says.
C18_Shadow ==
    LET label == ModelLabel(last.model)
    IN  /\ (last.op = "db_for_read" /\ last.arg = "miss"
              /\ label \in DOMAIN conf /\ "read" \notin DOMAIN conf[label])
            => last.val = default_read
        /\ (last.op = "db_for_write" /\ last.arg = "miss"
              /\ label \in DOMAIN conf /\ "write" \notin DOMAIN conf[label])
            => last.val = default_write

C18_Witness ==
    /\ last.op = "db_for_read"
    /\ last.arg = "miss"
    /\ ModelLabel(last.model) \in DOMAIN conf
    /\ "read" \notin DOMAIN conf[ModelLabel(last.model)]
    /\ last.model.app_label \in DOMAIN conf
    /\ "read" \in DOMAIN conf[last.model.app_label]
    /\ last.val = default_read
    /\ last.val # conf[last.model.app_label].read

\* The keys of the entity types the step just taken routed.
RoutedKeys(e) ==
    IF e.op \in {"get_db_config", "db_for_read", "db_for_write", "allow_syncdb"}
    THEN {ModelLabel(e.model)}
    ELSE IF e.op = "allow_relation" THEN {ModelLabel(e.model), e.arg}
    ELSE {}

\* C20: the lookup cache only grows.  A step adds at most the keys of the
\* entity types it routes, and only keys not yet cached; no step removes an
\* entry or changes its value; a cached key is served from the cache on
\* every router instance.
C20_Monotonic ==
    [][ /\ DOMAIN lookup_cache \subseteq DOMAIN lookup_cache'
        /\ \A k \in DOMAIN lookup_cache : lookup_cache'[k] = lookup_cache[k]
        /\ (DOMAIN lookup_cache' \ DOMAIN lookup_cache) \subseteq RoutedKeys(last')
        /\ (last'.op \in {"get_db_config", "db_for_read", "db_for_write"}
               /\ last'.self \in Routers
               /\ ModelLabel(last'.model) \in DOMAIN lookup_cache)
             => last'.arg = "hit" ]_vars

C20_Witness ==
    /\ last.op = "get_db_config"
    /\ last.arg = "hit"
    /\ last.self = NumRouters
    /\ DOMAIN lookup_cache = {ModelLabel(m) : m \in Models}
    /\ last.val = Resolved(last.model)

\* C16: a scope object entered again while it is active (enter, enter, exit,
\* exit on one object) still restores: after the outermost exit default_read
\* has the value it had before the first entry.
C16_ReentryRestores ==
    (last.op = "exit" /\ ~InScope(last.ctx)) => default_read = last.arg

\* C17: an __enter__ that fails in the connection lookup leaves default_read
\* at the value it had before the attempted entry.
C17_FailedEntryRestores ==
    last.op = "enter_failed" => default_read = last.arg

\* The write endpoint the settings give the model, scopes left aside.
SettingsWrite(model) ==
    IF ModelLabel(model) \in DOMAIN conf
    THEN DictGet(conf[ModelLabel(model)], "write", DefaultWrite0)
    ELSE IF model.app_label \in DOMAIN conf
    THEN DictGet(conf[model.app_label], "write", DefaultWrite0)
    ELSE DefaultWrite0

\* C19: no sequence or interleaving of enter and exit steps changes
\* default_write, and in every state, inside a scope as outside, the answers
\* of db_for_write, allow_syncdb and allow_relation are the ones the settings
\* and the import-time default_write give.
C19_WritesUntouched ==
    /\ default_write = DefaultWrite0
    /\ \A self \in Routers, m \in Models :
          /\ db_for_write(self, m) = SettingsWrite(m)
          /\ \A db \in Databases :
                allow_syncdb(self, db, m) <=> db = SettingsWrite(m)
          /\ \A m2 \in Models :
                allow_relation(self, m, m2)
                  <=> SettingsWrite(m) = SettingsWrite(m2)

C19_Witness ==
    /\ last.op = "exit"
    /\ last.ctx = 2
    /\ InScope(1)
    /\ default_read # default_write
    /\ default_write = DefaultWrite0
    /\ db_for_write(1, [app_label |-> "testapp", model_name |-> "project"])
         = DefaultWrite0

\* The override holds while the body of a wrapped invocation of context 1 runs.
BodiesInScope ==
    /\ \A i \in 1..Len(calls[1]) :
          (calls[1][i].wrapped /\ Depth(1) > calls[1][i].base)
             => default_read = default_write
    /\ (last.op = "db_for_read" /\ HasCall(1) /\ TopCall(1).wrapped
          /\ ~SettingsHaveRead(last.model))
         => last.val = default_write

\* C13: every invocation of a callable wrapped by force_primary_read runs in
\* its own scope.  default_read equals default_write during the whole body,
\* the wrapper returns what the callable returned, and when the invocation
\* returns or raises default_read has the value from before the call; also
\* when wrapped callables call wrapped callables or themselves.
C13_Wrapper ==
    [][ /\ BodiesInScope'
        /\ (HasCall(1) /\ TopCall(1).wrapped) =>
              /\ last'.op = "return" =>
                    /\ last'.val = TopCall(1).val
                    /\ default_read' = TopCall(1).before
              /\ last'.op = "unwind" =>
                    /\ exc'[1]
                    /\ default_read' = TopCall(1).before ]_vars

C13_Witness ==
    /\ last.op = "return"
    /\ last.arg = "read_from_primary"
    /\ last.val \in ReturnValues
    /\ HasCall(1)
    /\ TopCall(1).func = "read_from_primary"
    /\ InBody(1)
    /\ default_read = default_write

\* C14: after force_primary_read_method(methods=M) a method named in M runs
\* its body inside a scope and default_read is restored afterwards; while a
\* method not named in M is the running call no step changes default_read.
C14_MethodSet ==
    [][ /\ \A i \in 1..Len(calls'[1]) :
              (calls'[1][i].func \in ClassMethods \cap methods'
                 /\ Depth(1)' > calls'[1][i].base)
              => default_read' = default_write'
        /\ (HasCall(1) /\ TopCall(1).func \in ClassMethods \cap methods
               /\ last'.op \in {"return", "unwind"})
             => default_read' = TopCall(1).before
        /\ (HasCall(1) /\ TopCall(1).func \in ClassMethods \cap methods
               /\ last'.op \in {"db_for_read", "body_return", "raise"})
             => default_read = default_write
        /\ (HasCall(1) /\ TopCall(1).func \in ClassMethods \ methods)
             => default_read' = default_read
        /\ (last'.op = "invoke" /\ last'.arg \in ClassMethods \ methods)
             => default_read' = default_read ]_vars

C14_Witness ==
    /\ last.op = "return"
    /\ last.arg = "do_other_update"
    /\ methods = {"do_some_update", "missing"}
    /\ HasCall(1)
    /\ TopCall(1).func = "do_some_update"
    /\ InBody(1)
    /\ default_read = default_write
====
